---- MODULE Spec2Model ----
(***************************************************************************)
(* Model of the CLIC access layer of riscv-peripheral:                     *)
(*   src/src/clic.rs            capability contracts, the CLIC facade and   *)
(*                              the test enumerations Interrupt / Priority  *)
(*   src/src/clic/interrupt.rs  the INTERRUPTS control-register block       *)
(*   src/src/macros.rs          clic_codegen!, the forwarding singleton     *)
(*                                                                         *)
(* Machine words and addresses are sequences of 16-bit limbs, least        *)
(* significant limb first: 2 limbs on a 32-bit target, 4 on a 64-bit one.  *)
(* Every cast and every addition of the source keeps its width.            *)
(***************************************************************************)
EXTENDS Integers, Sequences, FiniteSets, TLC

VARIABLES
    xlen,        \* pointer width of the target: the width of usize
    base,        \* Clic::BASE, the base address the platform binds
    ptr,         \* INTERRUPTS.ptr, the address the block handle carries
    window,      \* the addresses of the bytes of the register window
    foreign,     \* what backs the bytes outside the register window
    image,       \* the content of the register window at the start
    mem,         \* byte memory: the register window and the foreign bytes
    halted,      \* the program took an access fault
    mstatus,     \* the mstatus CSR; bit 3 is MIE, the global interrupt enable
    mintthresh,  \* CSR 0x347, the global priority threshold
    lastEnable,  \* per source: the most recent call among enable/disable
    lastPend,    \* per source: the most recent call among pend/unpend
    lastPrio,    \* per source: the priority of the most recent set_priority
    lastThresh,  \* the most recent set_threshold: its argument, its position
    script,      \* the caller: a test of the repository, or any caller
    nops,        \* number of operations called so far
    conv,        \* a run of the number conversions of the enumerations
    acc,         \* a run of the address computation of one block operation
    ret,         \* what the most recent query returned to its caller
    accessed,    \* the register accesses made so far: read or write, and where
    handles,     \* the block handles CLIC::interrupts() has returned so far
    ctx          \* per execution context: the register store it is about to do

vars == <<xlen, base, ptr, window, foreign, image, mem, halted, mstatus,
          mintthresh, lastEnable, lastPend, lastPrio, lastThresh, script, nops, conv, acc,
          ret, accessed, handles, ctx>>

\* What no operation changes: the platform and the caller.
platform == <<xlen, base, ptr, window, foreign, image, script>>

\* What the operations of one caller on one handle leave alone.
aux == <<ret, handles, ctx>>

----------------------------------------------------------------------------
(* Machine words.                                                          *)

Radix == 2 ^ 16

XLens == {32, 64}

Limbs(w) == w \div 16

\* The word of value hi * 2^16 + lo (hi, lo < 2^16), in w bits.
Word(w, hi, lo) == [i \in 1 .. Limbs(w) |-> IF i = 1 THEN lo ELSE IF i = 2 THEN hi ELSE 0]

\* The word of value 2^32 * top + (hi * 2^16 + lo), in 64 bits.
Word64(top, hi, lo) == <<lo, hi, top, 0>>

RECURSIVE AddFrom(_, _, _)
AddFrom(a, i, c) ==
    IF i > Len(a) THEN a
    ELSE LET s == a[i] + c
         IN  AddFrom([a EXCEPT ![i] = s % Radix], i + 1, s \div Radix)

\* a + k modulo the width of a, for a natural k below 2^30.
WrappingAdd(a, k) == AddFrom(a, 1, k)

\* `x as u32`: the low 32 bits.
AsU32(a) == <<a[1], a[2]>>

\* `x as usize` / `x as *mut u8` of a 32-bit value: zero extension to w bits.
ZeroExtend(w, x) == [i \in 1 .. Limbs(w) |-> IF i <= Len(x) THEN x[i] ELSE 0]

----------------------------------------------------------------------------
(* The enumerations of the platform description (src/src/clic.rs, mod test) *)

MAX_INTERRUPT_NUMBER == 4

MAX_PRIORITY_NUMBER == 3

U16 == 0 .. (2 ^ 16 - 1)

U8 == 0 .. (2 ^ 8 - 1)

Interrupt == {"I1", "I2", "I3", "I4"}

Priority == {"P0", "P1", "P2", "P3"}

\* #[repr(u16)] enum Interrupt { I1 = 1, I2 = 2, I3 = 3, I4 = 4 }
InterruptRepr == [I1 |-> 1, I2 |-> 2, I3 |-> 3, I4 |-> 4]

\* #[repr(u8)] enum Priority { P0 = 0, P1 = 1, P2 = 2, P3 = 3 }
PriorityRepr == [P0 |-> 0, P1 |-> 1, P2 |-> 2, P3 |-> 3]

Ok(v) == [tag |-> "Ok", val |-> v]

Err(x) == [tag |-> "Err", val |-> x]

\* `self as _` on a #[repr(u16)] enum: its discriminant.
Interrupt_number(v) == InterruptRepr[v]

\* Mutant: the number taken as a zero-based index of the variants.
Interrupt_transmute_index(number) ==
    CHOOSE v \in Interrupt : InterruptRepr[v] = (number % MAX_INTERRUPT_NUMBER) + 1

\* core::mem::transmute(number): the variant stored as that discriminant.
Interrupt_transmute(number) == CHOOSE v \in Interrupt : InterruptRepr[v] = number

Interrupt_from_number(number) ==
    IF number > MAX_INTERRUPT_NUMBER \/ number = 0
    THEN Err(number)
    ELSE Ok(Interrupt_transmute(number))

Priority_number(v) == PriorityRepr[v]

Priority_transmute(number) == CHOOSE v \in Priority : PriorityRepr[v] = number

\* Mutant: the error carries the maximum, not the rejected number.
Priority_from_number_max(number) ==
    IF number > MAX_PRIORITY_NUMBER
    THEN Err(MAX_PRIORITY_NUMBER)
    ELSE Ok(Priority_transmute(number))

Priority_from_number(number) ==
    IF number > MAX_PRIORITY_NUMBER
    THEN Err(number)
    ELSE Ok(Priority_transmute(number))

----------------------------------------------------------------------------
(* Address computation of the control-register block                       *)
(* (src/src/clic/interrupt.rs).  ptr is a *mut u32, so ptr.offset(n) moves *)
(* by n elements of 4 bytes.                                               *)

\* self.ptr.offset(offset), offset = source.number() as usize as isize
PtrOffset(p, source) == WrappingAdd(p, 4 * Interrupt_number(source))

\* (self.ptr.offset(offset) as u32 + 1) as *mut u8
is_enabled_reg(w, p, source) ==
    ZeroExtend(w, WrappingAdd(AsU32(PtrOffset(p, source)), 1))

\* Mutant: the lane offset is left out, the register is the pending lane.
enable_reg_no_lane(w, p, source) ==
    ZeroExtend(w, AsU32(PtrOffset(p, source)))

enable_reg(w, p, source) ==
    ZeroExtend(w, WrappingAdd(AsU32(PtrOffset(p, source)), 1))

disable_reg(w, p, source) ==
    ZeroExtend(w, WrappingAdd(AsU32(PtrOffset(p, source)), 1))

\* (self.ptr.offset(offset) as u32 + 3) as *mut u8
get_priority_reg(w, p, source) ==
    ZeroExtend(w, WrappingAdd(AsU32(PtrOffset(p, source)), 3))

set_priority_reg(w, p, source) ==
    ZeroExtend(w, WrappingAdd(AsU32(PtrOffset(p, source)), 3))

\* self.ptr.offset(offset) as *mut u8
is_pending_reg(w, p, source) == PtrOffset(p, source)

\* Mutant: the register expression of enable, copied into pend.
pend_reg_enable_lane(w, p, source) ==
    ZeroExtend(w, WrappingAdd(AsU32(PtrOffset(p, source)), 1))

pend_reg(w, p, source) == PtrOffset(p, source)

unpend_reg(w, p, source) == PtrOffset(p, source)

BlockOps ==
    {"is_enabled", "enable", "disable", "get_priority", "set_priority",
     "is_pending", "pend", "unpend"}

\* The register one block operation builds for one source.
RegOf(op, w, p, source) ==
    CASE op = "is_enabled"   -> is_enabled_reg(w, p, source)
      [] op = "enable"       -> enable_reg(w, p, source)
      [] op = "disable"      -> disable_reg(w, p, source)
      [] op = "get_priority" -> get_priority_reg(w, p, source)
      [] op = "set_priority" -> set_priority_reg(w, p, source)
      [] op = "is_pending"   -> is_pending_reg(w, p, source)
      [] op = "pend"         -> pend_reg(w, p, source)
      [] op = "unpend"       -> unpend_reg(w, p, source)

----------------------------------------------------------------------------
(* The facade's handle (src/src/clic.rs)                                   *)

INTERRUPTS_OFFSET == 4096

\* INTERRUPTS::new(address): the handle is the address.
INTERRUPTS_new(address) == address

\* CLIC::interrupts(): INTERRUPTS::new(C::BASE + Self::INTERRUPTS_OFFSET)
\* Mutant: the handle is built on BASE itself, the offset is left out.
interrupts_no_offset(b) == INTERRUPTS_new(b)

interrupts(b) == INTERRUPTS_new(WrappingAdd(b, INTERRUPTS_OFFSET))

\* Base addresses of the model: the one of check_clic (0x1000), the highest
\* one whose register window still fits a 32-bit address space, one whose
\* window straddles 2^32 and one above 2^32 (the last two on 64 bits only).
Bases(w) ==
    IF w = 32
    THEN {Word(32, 0, 4096), Word(32, 65535, 61420)}
    ELSE {Word(64, 0, 4096), Word64(0, 65535, 61432), Word64(1, 0, 4096)}

----------------------------------------------------------------------------
(* Memory.  The register window is the simulated window of the tests: the  *)
(* bytes of the control words 0 .. MAX_INTERRUPT_NUMBER from INTERRUPTS.ptr *)
(* on.  A register built outside the window reaches foreign memory: RAM,   *)
(* memory that ignores writes, or nothing at all (the access faults).      *)

MaxOps == 3

WindowBytes == 4 * MAX_INTERRUPT_NUMBER + 4

Window(p) == {WrappingAdd(p, k) : k \in 0 .. (WindowBytes - 1)}

\* Every register the block can build for a valid source.
Touched(w, p) == {RegOf(op, w, p, source) : op \in BlockOps, source \in Interrupt}

MemDomain(w, p) == Window(p) \cup Touched(w, p)

ForeignKinds == {"ram", "rom", "unmapped"}

Images == {"zero", "junk"}

\* Arbitrary content: no byte of it is 0 or 1.
Junk(a) == 128 + (a[1] % 128)

InitMem(w, p, img) ==
    [a \in MemDomain(w, p) |->
        IF a \in Window(p) /\ img = "zero" THEN 0 ELSE Junk(a)]

Fault == 0 - 1

\* TRUE iff an access to address a faults.
Traps(win, f, a) == a \notin win /\ f = "unmapped"

\* Reg::<u8, RW>::read(): a volatile load of the byte.
Reg_read(win, f, m, a) == IF Traps(win, f, a) THEN Fault ELSE m[a]

\* Reg::<u8, RW>::write(v): a volatile store of the byte.
Reg_write(win, f, m, a, v) ==
    IF a \in win \/ f = "ram" THEN [m EXCEPT ![a] = v] ELSE m

----------------------------------------------------------------------------
(* Queries of the control-register block                                   *)

is_enabled(w, p, win, f, m, source) ==
    Reg_read(win, f, m, is_enabled_reg(w, p, source)) = 1

get_priority(w, p, win, f, m, source) ==
    Reg_read(win, f, m, get_priority_reg(w, p, source))

is_pending(w, p, win, f, m, source) ==
    Reg_read(win, f, m, is_pending_reg(w, p, source)) = 1

----------------------------------------------------------------------------
(* The global threshold CSR (mintthresh, 0x347)                            *)

Complement(a) == [i \in DOMAIN a |-> (Radix - 1) - a[i]]

Negate(a) == WrappingAdd(Complement(a), 1)

SignBit(a) == a[Len(a)] >= Radix \div 2

\* Mutant: a saturating conversion, isize::MAX for what does not fit.
AsIsize_saturating(t) ==
    [neg |-> FALSE,
     mag |-> IF SignBit(t)
             THEN [i \in DOMAIN t |-> IF i = Len(t) THEN Radix \div 2 - 1 ELSE Radix - 1]
             ELSE t]

\* `thresh as isize`: the signed integer with the same bit pattern.
AsIsize(t) == [neg |-> SignBit(t), mag |-> IF SignBit(t) THEN Negate(t) ELSE t]

\* csrrw x0, 0x347, {0}: the register operand is the two's complement
\* encoding of the isize.
csrrw(i) == IF i.neg THEN Negate(i.mag) ELSE i.mag

\* csrrs {0}, 0x347, x0 into `r: usize`.
get_threshold(csr) == csr

\* Contents of mstatus at the start: all clear, and MPP = 3 with MPIE set.
Statuses(w) == {Word(w, 0, 0), Word(w, 0, 6272)}

ThreshVals(w) ==
    {Word(w, 0, 0), Word(w, 0, 1), Word(w, 0, 255), Word(w, 1, 0),
     [i \in 1 .. Limbs(w) |-> IF i = Limbs(w) THEN Radix \div 2 ELSE 0],
     [i \in 1 .. Limbs(w) |-> Radix - 1]}

----------------------------------------------------------------------------
(* Callers                                                                 *)

Call(op, source, prio) == [op |-> op, source |-> source, prio |-> prio]

\* The call sequences of the tests of src/src/clic/interrupt.rs.
Tests ==
    [test_enable |->
        <<Call("enable", "I1", "P0"), Call("enable", "I2", "P0"),
          Call("enable", "I3", "P0"), Call("enable", "I4", "P0"),
          Call("disable", "I2", "P0"), Call("disable", "I4", "P0")>>,
     test_priorities |->
        <<Call("set_priority", "I1", "P0"), Call("set_priority", "I2", "P1"),
          Call("set_priority", "I3", "P2"), Call("set_priority", "I4", "P3")>>,
     test_pending |->
        <<Call("pend", "I1", "P0"), Call("pend", "I2", "P0"),
          Call("pend", "I3", "P0"), Call("pend", "I4", "P0"),
          Call("unpend", "I2", "P0"), Call("unpend", "I4", "P0")>>]

\* TRUE iff the caller issues this call next: a test follows its sequence,
\* any other caller issues up to MaxOps calls of its choice.
Issues(call) ==
    IF script = "free"
    THEN nops < MaxOps
    ELSE nops < Len(Tests[script]) /\ Tests[script][nops + 1] = call

----------------------------------------------------------------------------
(* Initial states                                                          *)

NoThresh == [set |-> FALSE, val |-> <<>>, at |-> 0]

Access(rw, reg) == [rw |-> rw, at |-> reg]

\* What a query returns: a bool (flag), a u8 (byte) or a usize (word).
Ret(op, source, flag, byte, word) ==
    [op |-> op, source |-> source, flag |-> flag, byte |-> byte, word |-> word]

NoRet == Ret("none", "I1", FALSE, 0, <<>>)

\* The execution contexts of a hart: the main program and an interrupt handler.
Contexts == {"main", "handler"}

NoStore == [op |-> "none", source |-> "I1", prio |-> "P0"]

ConvIdle == [kind |-> "Interrupt", variant |-> "none", number |-> 0,
             result |-> Err(0), pc |-> "idle"]

AccIdle == [op |-> "none", source |-> "I1", reg |-> <<>>, pc |-> "idle"]

\* The platforms the operations run on: the block of check_clic on both
\* widths, and on 64 bits a block that straddles 2^32 and one above it.
Platforms ==
    {<<32, Word(32, 0, 4096)>>, <<64, Word64(0, 65535, 61432)>>,
     <<64, Word64(1, 0, 4096)>>}

\* Everything but the content of memory.
InitDevice(platforms, images, scripts, statuses) ==
    /\ \E pf \in platforms : xlen = pf[1] /\ base = pf[2]
    /\ ptr = interrupts(base)
    /\ window = Window(ptr)
    /\ foreign \in (IF Touched(xlen, ptr) \subseteq Window(ptr)
                     THEN {"ram"} ELSE ForeignKinds)
    /\ script \in scripts
    /\ image \in (IF script = "free" THEN images ELSE {"zero"})
    /\ halted = FALSE
    /\ mstatus \in statuses
    /\ mintthresh = Word(xlen, 0, 0)
    /\ lastEnable = [source \in Interrupt |-> "none"]
    /\ lastPend = [source \in Interrupt |-> "none"]
    /\ lastPrio = [source \in Interrupt |-> "none"]
    /\ lastThresh = NoThresh
    /\ nops = 0
    /\ ret = NoRet
    /\ accessed = {}
    /\ handles = <<ptr>>
    /\ ctx = [c \in Contexts |-> NoStore]

InitPlatform(platforms, images, scripts, statuses) ==
    /\ InitDevice(platforms, images, scripts, statuses)
    /\ mem = InitMem(xlen, ptr, image)

Init ==
    /\ InitPlatform(Platforms, Images, {"free"} \cup DOMAIN Tests, {Word(xlen, 0, 0)})
    /\ conv = ConvIdle
    /\ acc = AccIdle

----------------------------------------------------------------------------
(* Operations of the control-register block (src/src/clic/interrupt.rs)    *)

\* The store of each operation: reg.write(1), reg.write(0), reg.write(prio).
\* Mutant: enable toggles the lane instead of storing 1.
enable_mem_toggle(w, p, win, f, m, source) ==
    LET reg == enable_reg(w, p, source)
    IN  Reg_write(win, f, m, reg, IF m[reg] = 1 THEN 0 ELSE 1)

enable_mem(w, p, win, f, m, source) ==
    Reg_write(win, f, m, enable_reg(w, p, source), 1)

disable_mem(w, p, win, f, m, source) ==
    Reg_write(win, f, m, disable_reg(w, p, source), 0)

set_priority_mem(w, p, win, f, m, source, prio) ==
    Reg_write(win, f, m, set_priority_reg(w, p, source), Priority_number(prio))

pend_mem(w, p, win, f, m, source) ==
    Reg_write(win, f, m, pend_reg(w, p, source), 1)

unpend_mem(w, p, win, f, m, source) ==
    Reg_write(win, f, m, unpend_reg(w, p, source), 0)

Called(call) == ~halted /\ Issues(call) /\ nops' = nops + 1

enable(source) ==
    /\ Called(Call("enable", source, "P0"))
    /\ lastEnable' = [lastEnable EXCEPT ![source] = "enable"]
    /\ mem' = enable_mem(xlen, ptr, window, foreign, mem, source)
    /\ halted' = Traps(window, foreign, enable_reg(xlen, ptr, source))
    /\ accessed' = accessed \cup {Access("write", enable_reg(xlen, ptr, source))}
    /\ UNCHANGED <<platform, mstatus, mintthresh, lastPend, lastPrio, lastThresh,
                   conv, acc, aux>>

disable(source) ==
    /\ Called(Call("disable", source, "P0"))
    /\ lastEnable' = [lastEnable EXCEPT ![source] = "disable"]
    /\ mem' = disable_mem(xlen, ptr, window, foreign, mem, source)
    /\ halted' = Traps(window, foreign, disable_reg(xlen, ptr, source))
    /\ accessed' = accessed \cup {Access("write", disable_reg(xlen, ptr, source))}
    /\ UNCHANGED <<platform, mstatus, mintthresh, lastPend, lastPrio, lastThresh,
                   conv, acc, aux>>

set_priority(source, prio) ==
    /\ Called(Call("set_priority", source, prio))
    /\ lastPrio' = [lastPrio EXCEPT ![source] = prio]
    /\ mem' = set_priority_mem(xlen, ptr, window, foreign, mem, source, prio)
    /\ halted' = Traps(window, foreign, set_priority_reg(xlen, ptr, source))
    /\ accessed' = accessed \cup {Access("write", set_priority_reg(xlen, ptr, source))}
    /\ UNCHANGED <<platform, mstatus, mintthresh, lastEnable, lastPend, lastThresh,
                   conv, acc, aux>>

pend(source) ==
    /\ Called(Call("pend", source, "P0"))
    /\ lastPend' = [lastPend EXCEPT ![source] = "pend"]
    /\ mem' = pend_mem(xlen, ptr, window, foreign, mem, source)
    /\ halted' = Traps(window, foreign, pend_reg(xlen, ptr, source))
    /\ accessed' = accessed \cup {Access("write", pend_reg(xlen, ptr, source))}
    /\ UNCHANGED <<platform, mstatus, mintthresh, lastEnable, lastPrio, lastThresh,
                   conv, acc, aux>>

unpend(source) ==
    /\ Called(Call("unpend", source, "P0"))
    /\ lastPend' = [lastPend EXCEPT ![source] = "unpend"]
    /\ mem' = unpend_mem(xlen, ptr, window, foreign, mem, source)
    /\ halted' = Traps(window, foreign, unpend_reg(xlen, ptr, source))
    /\ accessed' = accessed \cup {Access("write", unpend_reg(xlen, ptr, source))}
    /\ UNCHANGED <<platform, mstatus, mintthresh, lastEnable, lastPrio, lastThresh,
                   conv, acc, aux>>

EnableStep == \E source \in Interrupt : enable(source)

DisableStep == \E source \in Interrupt : disable(source)

SetPriorityStep == \E source \in Interrupt, prio \in Priority : set_priority(source, prio)

PendStep == \E source \in Interrupt : pend(source)

UnpendStep == \E source \in Interrupt : unpend(source)

Next ==
    \/ EnableStep
    \/ DisableStep
    \/ SetPriorityStep
    \/ PendStep
    \/ UnpendStep

Spec == Init /\ [][Next]_vars

----------------------------------------------------------------------------
(* Operations of the facade (src/src/clic.rs, forwarded by clic_codegen!)  *)

\* Bit 3 of the low limb of a word.
MieBit(a) == (a[1] \div 8) % 2

\* Mutant: csrrw in place of csrrs, the mask overwrites mstatus.
set_mie_overwrite(status) == [i \in DOMAIN status |-> IF i = 1 THEN 8 ELSE 0]

\* riscv::register::mstatus::set_mie(): csrrs on bit 3 of mstatus.
set_mie(status) == IF MieBit(status) = 1 THEN status ELSE WrappingAdd(status, 8)

\* riscv::register::mstatus::clear_mie(): csrrc on bit 3 of mstatus.
clear_mie(status) ==
    IF MieBit(status) = 0 THEN status ELSE [status EXCEPT ![1] = status[1] - 8]

CLIC_enable ==
    /\ Called(Call("CLIC::enable", "I1", "P0"))
    /\ mstatus' = set_mie(mstatus)
    /\ UNCHANGED <<platform, mem, halted, mintthresh, lastEnable, lastPend,
                   lastPrio, lastThresh, conv, acc, aux, accessed>>

CLIC_disable ==
    /\ Called(Call("CLIC::disable", "I1", "P0"))
    /\ mstatus' = clear_mie(mstatus)
    /\ UNCHANGED <<platform, mem, halted, mintthresh, lastEnable, lastPend,
                   lastPrio, lastThresh, conv, acc, aux, accessed>>

set_threshold(thresh) ==
    /\ Called(Call("CLIC::set_threshold", "I1", "P0"))
    /\ mintthresh' = csrrw(AsIsize(thresh))
    /\ lastThresh' = [set |-> TRUE, val |-> thresh, at |-> nops']
    /\ UNCHANGED <<platform, mem, halted, mstatus, lastEnable, lastPend,
                   lastPrio, conv, acc, aux, accessed>>

SetThresholdStep == \E thresh \in ThreshVals(xlen) : set_threshold(thresh)

\* The facade runs on the device: the register window is the device's,
\* all zero after reset.  Its platforms are those of check_clic,
\* clic_codegen!(base 0x1000), on both widths.
FacadePlatforms == {<<w, Word(w, 0, 4096)>> : w \in XLens}

InitFacade ==
    /\ InitPlatform(FacadePlatforms, {"zero"}, {"free"}, Statuses(xlen))
    /\ conv = ConvIdle
    /\ acc = AccIdle

NextFacade ==
    \/ CLIC_enable
    \/ CLIC_disable
    \/ SetThresholdStep
    \/ EnableStep
    \/ DisableStep
    \/ SetPriorityStep
    \/ PendStep
    \/ UnpendStep

SpecFacade == InitFacade /\ [][NextFacade]_vars

----------------------------------------------------------------------------
(* The address computation on its own: one block operation builds its      *)
(* register for one source, on every platform of Bases.                    *)

AllPlatforms == UNION {{<<w, b>> : b \in Bases(w)} : w \in XLens}

InitAddr ==
    /\ InitPlatform(AllPlatforms, {"zero"}, {"free"}, {Word(xlen, 0, 0)})
    /\ conv = ConvIdle
    /\ acc \in [op : BlockOps, source : Interrupt, reg : {<<>>}, pc : {"start"}]

BuildReg ==
    /\ acc.pc = "start"
    /\ acc' = [acc EXCEPT !.reg = RegOf(acc.op, xlen, ptr, acc.source),
                          !.pc = "done"]
    /\ UNCHANGED <<platform, mem, halted, mstatus, mintthresh, lastEnable,
                   lastPend, lastPrio, lastThresh, nops, conv, aux, accessed>>

NextAddr == BuildReg

SpecAddr == InitAddr /\ [][NextAddr]_vars

----------------------------------------------------------------------------
(* The number conversions on their own: a run starts from a variant        *)
(* (number, then from_number) or from a raw number (from_number).          *)

ConvRuns ==
    [kind : {"Interrupt"}, variant : Interrupt, number : {0},
     result : {Err(0)}, pc : {"start"}]
    \cup [kind : {"Priority"}, variant : Priority, number : {0},
          result : {Err(0)}, pc : {"start"}]
    \cup [kind : {"Interrupt"}, variant : {"none"}, number : U16,
          result : {Err(0)}, pc : {"numbered"}]
    \cup [kind : {"Priority"}, variant : {"none"}, number : U8,
          result : {Err(0)}, pc : {"numbered"}]

InitConv ==
    /\ InitPlatform({<<32, Word(32, 0, 4096)>>}, {"zero"}, {"free"},
                    {Word(xlen, 0, 0)})
    /\ conv \in ConvRuns
    /\ acc = AccIdle

number ==
    /\ conv.pc = "start"
    /\ conv' = [conv EXCEPT
                  !.number = IF conv.kind = "Interrupt"
                             THEN Interrupt_number(conv.variant)
                             ELSE Priority_number(conv.variant),
                  !.pc = "numbered"]
    /\ UNCHANGED <<platform, mem, halted, mstatus, mintthresh, lastEnable,
                   lastPend, lastPrio, lastThresh, nops, acc, aux, accessed>>

from_number ==
    /\ conv.pc = "numbered"
    /\ conv' = [conv EXCEPT
                  !.result = IF conv.kind = "Interrupt"
                             THEN Interrupt_from_number(conv.number)
                             ELSE Priority_from_number(conv.number),
                  !.pc = "done"]
    /\ UNCHANGED <<platform, mem, halted, mstatus, mintthresh, lastEnable,
                   lastPend, lastPrio, lastThresh, nops, acc, aux, accessed>>

NextConv == number \/ from_number

SpecConv == InitConv /\ [][NextConv]_vars

----------------------------------------------------------------------------
(* The queries as calls: what the caller gets back is kept in ret.  A      *)
(* query whose read faults never returns.                                  *)

Returned(reg, value) ==
    /\ halted' = Traps(window, foreign, reg)
    /\ ret' = IF Traps(window, foreign, reg) THEN NoRet ELSE value
    /\ accessed' = accessed \cup {Access("read", reg)}

is_enabled_call(source) ==
    /\ Called(Call("is_enabled", source, "P0"))
    /\ Returned(is_enabled_reg(xlen, ptr, source),
                Ret("is_enabled", source,
                    is_enabled(xlen, ptr, window, foreign, mem, source), 0, <<>>))
    /\ UNCHANGED <<platform, mem, mstatus, mintthresh, lastEnable, lastPend,
                   lastPrio, lastThresh, conv, acc, handles, ctx>>

get_priority_call(source) ==
    /\ Called(Call("get_priority", source, "P0"))
    /\ Returned(get_priority_reg(xlen, ptr, source),
                Ret("get_priority", source, FALSE,
                    get_priority(xlen, ptr, window, foreign, mem, source), <<>>))
    /\ UNCHANGED <<platform, mem, mstatus, mintthresh, lastEnable, lastPend,
                   lastPrio, lastThresh, conv, acc, handles, ctx>>

is_pending_call(source) ==
    /\ Called(Call("is_pending", source, "P0"))
    /\ Returned(is_pending_reg(xlen, ptr, source),
                Ret("is_pending", source,
                    is_pending(xlen, ptr, window, foreign, mem, source), 0, <<>>))
    /\ UNCHANGED <<platform, mem, mstatus, mintthresh, lastEnable, lastPend,
                   lastPrio, lastThresh, conv, acc, handles, ctx>>

IsEnabledStep == \E source \in Interrupt : is_enabled_call(source)

GetPriorityStep == \E source \in Interrupt : get_priority_call(source)

IsPendingStep == \E source \in Interrupt : is_pending_call(source)

\* CLIC::get_threshold reads the CSR; no memory is accessed.
CLIC_get_threshold ==
    /\ Called(Call("CLIC::get_threshold", "I1", "P0"))
    /\ ret' = Ret("get_threshold", "I1", FALSE, 0, get_threshold(mintthresh))
    /\ UNCHANGED <<platform, mem, halted, mstatus, mintthresh, lastEnable,
                   lastPend, lastPrio, lastThresh, conv, acc, accessed,
                   handles, ctx>>

----------------------------------------------------------------------------
(* Handles: CLIC::interrupts() may be called again and again; the caller   *)
(* goes on with the handle it got last.                                    *)

CLIC_interrupts ==
    /\ Called(Call("CLIC::interrupts", "I1", "P0"))
    /\ handles' = Append(handles, interrupts(base))
    /\ ptr' = interrupts(base)
    /\ UNCHANGED <<xlen, base, window, foreign, image, script, mem, halted,
                   mstatus, mintthresh, lastEnable, lastPend, lastPrio,
                   lastThresh, conv, acc, ret, accessed, ctx>>

InitHandles ==
    /\ InitPlatform(Platforms, {"zero"}, {"free"}, {Word(xlen, 0, 0)})
    /\ conv = ConvIdle
    /\ acc = AccIdle

NextHandles ==
    \/ CLIC_interrupts
    \/ EnableStep
    \/ DisableStep
    \/ SetPriorityStep
    \/ PendStep
    \/ UnpendStep

SpecHandles == InitHandles /\ [][NextHandles]_vars

----------------------------------------------------------------------------
(* Reads of lanes that hold any byte: the hardware, or a store that did    *)
(* not go through the block, left the byte b in the pending or the enable  *)
(* lane of one source of a window that is zero elsewhere.                  *)

Poked(m, p, source, lane, b) == [m EXCEPT ![WrappingAdd(PtrOffset(p, source), lane)] = b]

InitRead ==
    /\ InitDevice(Platforms, {"poked"}, {"free"}, {Word(xlen, 0, 0)})
    /\ \E source \in Interrupt, lane \in {0, 1}, b \in U8 :
           mem = Poked(InitMem(xlen, ptr, "zero"), ptr, source, lane, b)
    /\ conv = ConvIdle
    /\ acc = AccIdle

\* A run makes one query: the content of memory is drawn at the start and
\* no query changes it.
ReadEnabled == nops = 0 /\ IsEnabledStep

ReadPending == nops = 0 /\ IsPendingStep

NextRead ==
    \/ ReadEnabled
    \/ ReadPending

SpecRead == InitRead /\ [][NextRead]_vars

----------------------------------------------------------------------------
(* Every block operation, query or store, next to the threshold            *)
(* operations of the facade, from a zeroed register window.                *)

InitEffect ==
    /\ InitPlatform(Platforms, {"zero"}, {"free"}, {Word(xlen, 0, 0)})
    /\ conv = ConvIdle
    /\ acc = AccIdle

NextEffect ==
    \/ IsEnabledStep
    \/ EnableStep
    \/ DisableStep
    \/ GetPriorityStep
    \/ SetPriorityStep
    \/ IsPendingStep
    \/ PendStep
    \/ UnpendStep
    \/ SetThresholdStep
    \/ CLIC_get_threshold

SpecEffect == InitEffect /\ [][NextEffect]_vars

----------------------------------------------------------------------------
(* Two execution contexts on one hart.  An operation builds its register,  *)
(* then stores one byte; the other context may run in between.  A context  *)
(* issues its next operation when the store of the previous one is done.   *)

WriteOps == {"enable", "disable", "set_priority", "pend", "unpend"}

\* The memory after the store of a pending operation.
StoreMem(m, store) ==
    CASE store.op = "enable"       -> enable_mem(xlen, ptr, window, foreign, m, store.source)
      [] store.op = "disable"      -> disable_mem(xlen, ptr, window, foreign, m, store.source)
      [] store.op = "set_priority" ->
             set_priority_mem(xlen, ptr, window, foreign, m, store.source, store.prio)
      [] store.op = "pend"         -> pend_mem(xlen, ptr, window, foreign, m, store.source)
      [] store.op = "unpend"       -> unpend_mem(xlen, ptr, window, foreign, m, store.source)
      [] store.op = "none"         -> m

Issue(c, op, source, prio) ==
    /\ ctx[c] = NoStore
    /\ Called(Call(op, source, prio))
    /\ ctx' = [ctx EXCEPT ![c] = Call(op, source, prio)]
    /\ UNCHANGED <<platform, mem, halted, mstatus, mintthresh, lastEnable,
                   lastPend, lastPrio, lastThresh, conv, acc, ret, accessed,
                   handles>>

Store(c) ==
    LET store == ctx[c]
        reg == RegOf(store.op, xlen, ptr, store.source)
    IN  /\ ~halted
        /\ store.op \in WriteOps
        /\ ctx' = [ctx EXCEPT ![c] = NoStore]
        /\ lastEnable' = IF store.op \in {"enable", "disable"}
                         THEN [lastEnable EXCEPT ![store.source] = store.op]
                         ELSE lastEnable
        /\ lastPend' = IF store.op \in {"pend", "unpend"}
                       THEN [lastPend EXCEPT ![store.source] = store.op]
                       ELSE lastPend
        /\ lastPrio' = IF store.op = "set_priority"
                       THEN [lastPrio EXCEPT ![store.source] = store.prio]
                       ELSE lastPrio
        /\ mem' = StoreMem(mem, store)
        /\ halted' = Traps(window, foreign, reg)
        /\ accessed' = accessed \cup {Access("write", reg)}
        /\ UNCHANGED <<platform, mstatus, mintthresh, lastThresh, nops, conv,
                       acc, ret, handles>>

IssueStep ==
    \E c \in Contexts, op \in WriteOps, source \in Interrupt, prio \in Priority :
        /\ op # "set_priority" => prio = "P0"
        /\ Issue(c, op, source, prio)

StoreStep == \E c \in Contexts : Store(c)

InitConc ==
    /\ InitPlatform(Platforms, {"zero"}, {"free"}, {Word(xlen, 0, 0)})
    /\ conv = ConvIdle
    /\ acc = AccIdle

NextConc ==
    \/ IssueStep
    \/ StoreStep

SpecConc == InitConc /\ [][NextConc]_vars

----------------------------------------------------------------------------
(* Properties                                                              *)

\* The register layout: the byte of lane `lane` of the control word of
\* `source` is at block address + 4 * number + lane.
LaneAddr(p, source, lane) == WrappingAdd(p, 4 * InterruptRepr[source] + lane)

PendingLane == 0

EnableLane == 1

PriorityLane == 3

LaneOf(op) ==
    CASE op \in {"is_pending", "pend", "unpend"}       -> PendingLane
      [] op \in {"is_enabled", "enable", "disable"}    -> EnableLane
      [] op \in {"get_priority", "set_priority"}       -> PriorityLane

AddressComputation ==
    acc.pc = "done" => acc.reg = LaneAddr(ptr, acc.source, LaneOf(acc.op))

\* C3 (enable offset correctness): from a zeroed register window,
\* is_enabled(n) is true iff the most recent call among enable(n) and
\* disable(n) was enable(n).
EnableOffsetCorrectness ==
    image = "zero" =>
        \A n \in Interrupt :
            is_enabled(xlen, ptr, window, foreign, mem, n)
                <=> lastEnable[n] = "enable"

\* C4 (pending offset correctness): from a zeroed register window,
\* is_pending(n) is true iff the most recent call among pend(n) and
\* unpend(n) was pend(n).
PendingOffsetCorrectness ==
    image = "zero" =>
        \A n \in Interrupt :
            is_pending(xlen, ptr, window, foreign, mem, n)
                <=> lastPend[n] = "pend"

\* C4 witness: the end of test_pending on a block above 2^32: 1, 2, 3, 4
\* pended, then 2 and 4 unpended; 1 and 3 read pending, 2 and 4 do not.
PendingOffsetWitness ==
    /\ script = "test_pending"
    /\ nops = Len(Tests.test_pending)
    /\ ptr = Word64(1, 0, 8192)
    /\ is_pending(xlen, ptr, window, foreign, mem, "I1")
    /\ ~is_pending(xlen, ptr, window, foreign, mem, "I2")
    /\ is_pending(xlen, ptr, window, foreign, mem, "I3")
    /\ ~is_pending(xlen, ptr, window, foreign, mem, "I4")

\* C5 (priority round trip): once set_priority(n, p) was called,
\* get_priority(n) returns p.number() until the next set_priority(n, _),
\* whatever other operations are called in between.
PriorityRoundTrip ==
    \A n \in Interrupt :
        lastPrio[n] # "none" =>
            get_priority(xlen, ptr, window, foreign, mem, n)
                = Priority_number(lastPrio[n])

\* C6 (idempotence): after a step of enable(n), a second enable(n) stores
\* into the memory the first one left and leaves it as it is; the same for
\* disable(n), pend(n) and unpend(n).
Idempotence ==
    [][\A n \in Interrupt :
          /\ enable(n) => enable_mem(xlen, ptr, window, foreign, mem', n) = mem'
          /\ disable(n) => disable_mem(xlen, ptr, window, foreign, mem', n) = mem'
          /\ pend(n) => pend_mem(xlen, ptr, window, foreign, mem', n) = mem'
          /\ unpend(n) => unpend_mem(xlen, ptr, window, foreign, mem', n) = mem']_vars

\* C6 witness: two calls, both among enable(n) and disable(n), the last one
\* enable(n), on a window of arbitrary content: the enable lane holds 1.
IdempotenceWitness ==
    \E n \in Interrupt :
        /\ image = "junk"
        /\ nops = 2
        /\ lastEnable[n] = "enable"
        /\ \A m \in Interrupt \ {n} : lastEnable[m] = "none"
        /\ \A m \in Interrupt : lastPend[m] = "none" /\ lastPrio[m] = "none"
        /\ mem[LaneAddr(ptr, n, EnableLane)] = 1

\* C7 (conversion round trip): for every variant v of Interrupt and of
\* Priority, from_number(v.number()) is Ok(v); number() is at most the
\* declared maximum and gives distinct variants distinct numbers.
ConversionRoundTrip ==
    /\ (conv.variant # "none" /\ conv.pc \in {"numbered", "done"}) =>
           conv.number <= (IF conv.kind = "Interrupt"
                           THEN MAX_INTERRUPT_NUMBER ELSE MAX_PRIORITY_NUMBER)
    /\ (conv.variant # "none" /\ conv.pc = "done") =>
           conv.result.tag = "Ok" /\ conv.result.val = conv.variant
    /\ \A v, w \in Interrupt : Interrupt_number(v) = Interrupt_number(w) => v = w
    /\ \A v, w \in Priority : Priority_number(v) = Priority_number(w) => v = w

\* C7 witness: the round trip of the zero priority P0 has ended.
ConversionRoundTripWitness ==
    conv.pc = "done" /\ conv.variant = "P0" /\ conv.number = 0

\* C8 (conversion rejection): Interrupt::from_number(0) is Err(0); for both
\* enumerations from_number(x) with x above the declared maximum is Err(x);
\* every Err carries the rejected number; every Ok carries a declared
\* variant whose number is the input.
ConversionRejection ==
    conv.pc = "done" =>
        /\ (conv.kind = "Interrupt" /\ conv.number = 0) =>
               conv.result.tag = "Err"
        /\ (conv.kind = "Interrupt" /\ conv.number > MAX_INTERRUPT_NUMBER) =>
               conv.result.tag = "Err"
        /\ (conv.kind = "Priority" /\ conv.number > MAX_PRIORITY_NUMBER) =>
               conv.result.tag = "Err"
        /\ conv.result.tag = "Err" => conv.result.val = conv.number
        /\ conv.result.tag = "Ok" =>
               IF conv.kind = "Interrupt"
               THEN /\ conv.result.val \in Interrupt
                    /\ Interrupt_number(conv.result.val) = conv.number
               ELSE /\ conv.result.val \in Priority
                    /\ Priority_number(conv.result.val) = conv.number

\* C8 witness: Priority::from_number(255) has returned Err(255).
ConversionRejectionWitness ==
    /\ conv.pc = "done"
    /\ conv.kind = "Priority"
    /\ conv.number = 255
    /\ conv.result.tag = "Err"

\* C9 (threshold pass-through): once set_threshold(t) was called,
\* get_threshold() returns t until the next set_threshold, whatever global
\* enable/disable and per-source operations are called in between.
ThresholdPassThrough ==
    lastThresh.set => get_threshold(mintthresh) = lastThresh.val

\* C9 witness: set_threshold(usize::MAX) was the first call; the global
\* enable and an enable of a source followed it.
ThresholdPassThroughWitness ==
    /\ lastThresh.set
    /\ lastThresh.at = 1
    /\ lastThresh.val = [i \in 1 .. Limbs(xlen) |-> Radix - 1]
    /\ nops = 3
    /\ MieBit(mstatus) = 1
    /\ \E n \in Interrupt : lastEnable[n] = "enable"

\* mstatus without its MIE bit.
OtherBits(status) == [status EXCEPT ![1] = status[1] - 8 * MieBit(status)]

\* C10 (global gate independence): a step of the facade's enable() or
\* disable() leaves every byte of memory (so every per-source lane), the
\* threshold and every bit of mstatus but MIE as they were.
GlobalGateIndependence ==
    [][(CLIC_enable \/ CLIC_disable) =>
          /\ mem' = mem
          /\ mintthresh' = mintthresh
          /\ OtherBits(mstatus') = OtherBits(mstatus)]_vars

\* C10 witness: the global enable has set MIE next to the other bits of
\* mstatus, with a priority of 3 stored and a threshold set.
GlobalGateIndependenceWitness ==
    /\ mstatus = Word(xlen, 0, 6272 + 8)
    /\ lastThresh.set
    /\ \E n \in Interrupt :
           lastPrio[n] = "P3" /\ mem[LaneAddr(ptr, n, PriorityLane)] = 3

\* C11  Every call of CLIC::interrupts() returns a handle whose address is
\* exactly BASE + 0x1000 (0x2000 for the base 0x1000 of check_clic), all
\* the handles returned are equal, and the operations through any of them
\* observe and modify the same register state: through every handle a query
\* returns what it returns through the handle in use, is_pending returns
\* what the pend / unpend calls made so far left, whichever handle they
\* went through, and a store lands on the same byte.
HandleIdentity ==
    \A i \in DOMAIN handles :
        /\ handles[i] = WrappingAdd(base, 4096)
        /\ base = Word(xlen, 0, 4096) => handles[i] = Word(xlen, 0, 8192)
        /\ \A j \in DOMAIN handles : handles[i] = handles[j]
        /\ \A n \in Interrupt :
               /\ is_enabled(xlen, handles[i], window, foreign, mem, n)
                      = is_enabled(xlen, ptr, window, foreign, mem, n)
               /\ get_priority(xlen, handles[i], window, foreign, mem, n)
                      = get_priority(xlen, ptr, window, foreign, mem, n)
               /\ is_pending(xlen, handles[i], window, foreign, mem, n)
                      = (lastPend[n] = "pend")
               /\ enable_reg(xlen, handles[i], n) = enable_reg(xlen, ptr, n)
               /\ set_priority_reg(xlen, handles[i], n)
                      = set_priority_reg(xlen, ptr, n)
               /\ pend_reg(xlen, handles[i], n) = pend_reg(xlen, ptr, n)

HandleIdentityWitness ==
    /\ Len(handles) = 2
    /\ base = Word(xlen, 0, 4096)
    /\ \E n \in Interrupt :
           /\ lastPend[n] = "pend"
           /\ is_pending(xlen, handles[1], window, foreign, mem, n)
           /\ is_pending(xlen, handles[2], window, foreign, mem, n)
           /\ lastEnable[n] = "enable"
           /\ is_enabled(xlen, handles[1], window, foreign, mem, n)

\* TRUE iff a + k does not fit the width of a.
AddOverflows(a, k) == WrappingAdd(a \o <<0>>, k)[Len(a) + 1] # 0

\* C15 (same-word consistency): for every block address the pointer width
\* can hold and every source n, the register of is_enabled/enable/disable
\* is the pending register of n plus 1, the register of get_priority/
\* set_priority is the pending register of n plus 3, all within one 4-byte
\* word, and no addition of the computation overflows.
SameWordConsistency ==
    acc.pc = "done" =>
        LET pending == is_pending_reg(xlen, ptr, acc.source)
            word == PtrOffset(ptr, acc.source)
        IN  /\ ~AddOverflows(ptr, 4 * Interrupt_number(acc.source))
            /\ acc.reg \in {WrappingAdd(pending, k) : k \in 0 .. 3}
            /\ acc.op \in {"is_enabled", "enable", "disable"} =>
                   /\ acc.reg = WrappingAdd(pending, 1)
                   /\ ~AddOverflows(AsU32(word), 1)
            /\ acc.op \in {"get_priority", "set_priority"} =>
                   /\ acc.reg = WrappingAdd(pending, 3)
                   /\ ~AddOverflows(AsU32(word), 3)

\* C13 (truth value is equality with 1): whatever byte b of 0 .. 255 the
\* enable lane of source n holds, is_enabled(n) returns, and returns true
\* iff b = 1; whatever byte the pending lane of n holds, is_pending(n)
\* returns, and returns true iff that byte is 1.
TruthIsOne ==
    nops > 0 =>
        /\ ~halted
        /\ ret.op = "is_enabled" =>
               ret.flag = (mem[LaneAddr(ptr, ret.source, EnableLane)] = 1)
        /\ ret.op = "is_pending" =>
               ret.flag = (mem[LaneAddr(ptr, ret.source, PendingLane)] = 1)

\* TRUE iff the step leaves every byte of memory but those of `lanes` as
\* it was.
OnlyBytes(lanes) == \A a \in DOMAIN mem : a \notin lanes => mem'[a] = mem[a]

\* C14 (exact side effect and nothing else): a step of is_enabled,
\* is_pending, get_priority or get_threshold leaves every byte of memory
\* (so every per-source lane), the threshold and mstatus (so the global
\* enable bit) unchanged; a step of pend(n) or unpend(n) changes nothing
\* but the pending lane of n, a step of set_priority(n, p) nothing but the
\* priority lane of n, and a step of set_threshold nothing but the
\* threshold register.
ExactSideEffect ==
    [][/\ (IsEnabledStep \/ IsPendingStep \/ GetPriorityStep \/ CLIC_get_threshold) =>
              /\ OnlyBytes({})
              /\ mintthresh' = mintthresh
              /\ mstatus' = mstatus
       /\ \A n \in Interrupt :
              (pend(n) \/ unpend(n)) =>
                  /\ OnlyBytes({LaneAddr(ptr, n, PendingLane)})
                  /\ mintthresh' = mintthresh
                  /\ mstatus' = mstatus
       /\ \A n \in Interrupt :
              (\E p \in Priority : set_priority(n, p)) =>
                  /\ OnlyBytes({LaneAddr(ptr, n, PriorityLane)})
                  /\ mintthresh' = mintthresh
                  /\ mstatus' = mstatus
       /\ SetThresholdStep =>
              /\ OnlyBytes({})
              /\ mstatus' = mstatus]_vars

\* C16 (in-window access only): with M the maximum of the enumeration,
\* every byte read or written so far lies between block address + 4 and
\* block address + 4M + 3; the four bytes of control word 0 and the
\* reserved lane (lane 2) of the control word of every source have not been
\* written and hold the value they started with.
InWindowAccess ==
    LET reserved == {WrappingAdd(ptr, k) : k \in 0 .. 3}
                        \cup {LaneAddr(ptr, n, 2) : n \in Interrupt}
    IN  /\ \A access \in accessed :
               access.at \in {WrappingAdd(ptr, k) :
                                 k \in 4 .. 4 * MAX_INTERRUPT_NUMBER + 3}
        /\ \A a \in reserved :
               /\ Access("write", a) \notin accessed
               /\ mem[a] = InitMem(xlen, ptr, image)[a]

\* Every lane a store has been issued to holds the value of the last of
\* those stores.
LastWriteWins ==
    \A n \in Interrupt :
        /\ lastEnable[n] = "enable" => mem[LaneAddr(ptr, n, EnableLane)] = 1
        /\ lastEnable[n] = "disable" => mem[LaneAddr(ptr, n, EnableLane)] = 0
        /\ lastPend[n] = "pend" => mem[LaneAddr(ptr, n, PendingLane)] = 1
        /\ lastPend[n] = "unpend" => mem[LaneAddr(ptr, n, PendingLane)] = 0
        /\ lastPrio[n] # "none" =>
               mem[LaneAddr(ptr, n, PriorityLane)] = PriorityRepr[lastPrio[n]]

\* The pending stores of the two contexts, when they are to different
\* lanes or different sources, give the same memory in either order.
StoresCommute ==
    LET a == ctx["main"]
        b == ctx["handler"]
    IN  (/\ a.op \in WriteOps
         /\ b.op \in WriteOps
         /\ (a.source # b.source \/ LaneOf(a.op) # LaneOf(b.op)))
            => StoreMem(StoreMem(mem, a), b) = StoreMem(StoreMem(mem, b), a)

\* C12 (single-lane atomicity under interleaving): with two contexts
\* issuing interleaved enable/disable/pend/unpend/set_priority, every
\* operation takes effect as one store of one byte, the lane named, and no
\* update is lost: after every step each lane of each source holds the
\* value of the last store issued to it; stores to different lanes or
\* different sources commute; and the operations of one context take
\* effect in program order: the operation a context has issued stays
\* pending until its own store, which changes at most its lane.
SingleLaneAtomicity ==
    [][/\ LastWriteWins'
       /\ StoresCommute
       /\ \A c \in Contexts :
              ctx[c].op \in WriteOps =>
                  \/ ctx'[c] = ctx[c] /\ ~Store(c)
                  \/ /\ Store(c)
                     /\ OnlyBytes({LaneAddr(ptr, ctx[c].source, LaneOf(ctx[c].op))})]_vars

====
